---- MODULE Spec2Model ----
(***************************************************************************)
(* Model of the ices logging module (src/src/log.c).                       *)
(*                                                                         *)
(* The state is the sink slot ices_config.logfile, the stdio streams the   *)
(* module opens and closes, where the three standard descriptors point,    *)
(* the last-error buffer, and the contents of the log file.  Every public  *)
(* function of log.c is one action; the static functions are operators on  *)
(* a state record, composed exactly as the C code calls them.              *)
(*                                                                         *)
(* Strings are modelled by an identifying text and a length, so that the   *)
(* bounded formatting calls (vsnprintf, strncpy, snprintf) are modelled by *)
(* what they do to the length.  The build is assumed to have vsnprintf.    *)
(* A file stream is flushed after every line (setlinebuf or the explicit   *)
(* fflush of ices_log_string), so a line written to an open file stream is *)
(* in the file when the write returns.                                     *)
(*                                                                         *)
(* Use of a stream after it was closed is undefined behaviour; the model   *)
(* chooses among the outcomes: the call has no effect, or the process      *)
(* crashes.  pclose waits for the tee child, which ends only when every    *)
(* descriptor on the write end of its pipe is closed; when stdout or       *)
(* stderr still point at the pipe the call never returns (pc = "hung").    *)
(* The tee child copies a line to the terminal and to the log file before  *)
(* the program makes its next call.  Of the log file the model keeps the   *)
(* last line.                                                              *)
(***************************************************************************)
EXTENDS Integers, Sequences, FiniteSets, TLC

(* ---------------------------- bounds ---------------------------------- *)
MaxHandles == 2      \* streams fopen/popen can hand out at the same time
MaxCalls == 3        \* calls that open or close the sink, in one run
ShortLen == 5        \* length of the short caller message
StrerrorLen == 25    \* length of the text ices_util_strerror returns

(* ------------------------ program constants --------------------------- *)
LOG_FILENAME_LEN == 1024
ERR_BUFF_LEN == 1024
BUFSIZE == 1024
MaxBaseLen == 1016
SuffixLen == 9       \* strlen("/ices.log")
NULL == 0
STDOUT == 1
NoDir == -1          \* ices_config.base_directory is a null pointer

Min(a, b) == IF a < b THEN a ELSE b

Dyn == 2..(MaxHandles + 1)
Handles == {STDOUT} \cup Dyn

(* absent, empty, short, the longest accepted, and too long *)
BaseDirs == {NoDir, 0, 13, MaxBaseLen, MaxBaseLen + 1}

(* caller-supplied messages: a short one and one longer than the buffer *)
Msgs == { [txt |-> "m1", len |-> ShortLen],
          [txt |-> "m2", len |-> BUFSIZE + ShortLen] }

(* ------------------------ descriptor targets -------------------------- *)
Tgt(k, n) == [k |-> k, n |-> n]
TTY == Tgt("tty", 0)
DEVNULL == Tgt("null", 0)
NOFD == Tgt("none", 0)
FileTo(p) == Tgt("file", p)     \* p: length of the path that was opened
PipeTo(h) == Tgt("pipe", h)     \* write end of the pipe of popen stream h

(* ------------------------------ state --------------------------------- *)
VARIABLES
  redirect,    \* build: REDIRECT_LOGGING defined
  daemon,      \* ices_config.daemon
  baseLen,     \* strlen(ices_config.base_directory), NoDir when null
  logfile,     \* ices_config.logfile: NULL or a stream
  streams,     \* stream -> [st, kind, to]
  stderrTo,    \* where descriptor 2 points
  stdinTo,     \* where descriptor 0 points
  lasterror,   \* static char lasterror[BUFSIZE]
  logFile,     \* the last line of the log file, <<>> while it is empty
  pc,          \* "running", "hung" (blocked in pclose) or "crashed"
  calls,       \* history: number of calls that opened or closed the sink
  last         \* history: the last call, its return value and its events

vars == <<redirect, daemon, baseLen, logfile, streams, stderrTo,
          stdinTo, lasterror, logFile, pc, calls, last>>

cfg == <<redirect, daemon, baseLen>>

NoLine == [pfx |-> "", txt |-> "", len |-> 0]
EmptyStr == [txt |-> "", len |-> 0]

(* one event of a call: a close or open primitive, a write, a store into  *)
(* the slot, or the return of a static function                           *)
Ev(t, fn, h, kind, wasOpen, line, slot) ==
  [t |-> t, fn |-> fn, h |-> h, kind |-> kind, wasOpen |-> wasOpen,
   line |-> line, slot |-> slot]

Cur == [logfile |-> logfile, streams |-> streams, stderrTo |-> stderrTo,
        stdinTo |-> stdinTo, lasterror |-> lasterror, logFile |-> logFile,
        pc |-> pc, ev |-> <<>>, ret |-> 1]

Unused == [st |-> "unused", kind |-> "none", to |-> NOFD]

Log(s, e) == [s EXCEPT !.ev = Append(@, e)]

(* a line appended to the log file: it is the last line now *)
AppendLog(f, line) == <<line>>

IsOpen(s, h) == h # NULL /\ s.streams[h].st = "open"

(* the outcomes of the calls the environment decides, and of the          *)
(* undefined uses of a closed stream                                      *)
EnvSet(FO, FR, PO, D1, D2, UC, UW, UF) ==
  [fopenOk : FO, freopenOk : FR, popenOk : PO, dup2Out : D1, dup2Err : D2,
   ubClose : UC, ubWrite : UW, ubFstat : UF]

Yes == {TRUE}
UbClose == {"noop", "crash"}
UbWrite == {"lost", "crash"}
UbFstat == {"fail", "fifo", "reg"}

(* undefined behaviour needs a closed stream: the slot dangles, or stdout *)
(* was closed                                                             *)
Dangling == logfile # NULL /\ streams[logfile].st # "open"
StdoutClosed == streams[STDOUT].st # "open"
UbC == IF Dangling THEN UbClose ELSE {"noop"}
UbF == IF Dangling THEN UbFstat ELSE {"fail"}
UbW == IF Dangling \/ StdoutClosed THEN UbWrite ELSE {"lost"}

(* the outcomes each entry point can meet *)
EnvWrite == EnvSet(Yes, Yes, Yes, Yes, Yes, {"noop"}, UbW, {"fail"})
EnvClose == EnvSet(Yes, Yes, Yes, Yes, Yes, UbC, {"lost"}, {"fail"})
EnvReopen == EnvSet(BOOLEAN, Yes, Yes, Yes, Yes, UbC, {"lost"}, {"fail"})
EnvDaemonize == EnvSet(BOOLEAN, BOOLEAN, Yes, Yes, BOOLEAN, UbC, UbWrite, UbF)
EnvRedirects == EnvSet(Yes, Yes, BOOLEAN, BOOLEAN, BOOLEAN, UbClose, UbWrite, {"fail"})
EnvOpen == EnvSet(BOOLEAN, Yes, Yes, Yes, Yes, {"noop"}, UbW, {"fail"})
EnvInitialize == IF daemon THEN EnvDaemonize
                 ELSE IF redirect THEN EnvRedirects ELSE EnvOpen

(* ------------------------- string formatting -------------------------- *)
vsnprintf(m) == [txt |-> m.txt, len |-> Min(m.len, BUFSIZE - 1)]

strncpy(src, n) == [txt |-> src.txt, len |-> Min(src.len, n)]

FmtLine(pfx, str) == [pfx |-> pfx, txt |-> str.txt, len |-> str.len]

Lit(txt, len) == [txt |-> txt, len |-> len]

(* --------------------------- ErrorState ------------------------------- *)
(* a recorder that keeps the first message it was given *)
ices_log_error_keep_first(s, m) ==
  IF s.pc # "running" THEN s
  ELSE [Log(s, Ev("record", "ices_log_error", NULL, "none", FALSE, FmtLine("", m), s.logfile))
          EXCEPT !.lasterror = IF @ = EmptyStr THEN strncpy(vsnprintf(m), BUFSIZE) ELSE @]

ices_log_error(s, m) ==
  IF s.pc # "running" THEN s
  ELSE [Log(s, Ev("record", "ices_log_error", NULL, "none", FALSE, FmtLine("", m), s.logfile))
          EXCEPT !.lasterror = strncpy(vsnprintf(m), BUFSIZE)]

ices_log_get_error(s) == s.lasterror

(* ------------------------------ Writer -------------------------------- *)
(* fprintf/printf of one line to stream h *)
fprintf(s, h, line, e) ==
  IF s.pc # "running" THEN s
  ELSE IF s.streams[h].st # "open"
  THEN LET s1 == Log(s, Ev("write", "closed", h, s.streams[h].kind, FALSE, line, s.logfile))
       IN IF e.ubWrite = "crash" THEN [s1 EXCEPT !.pc = "crashed"] ELSE s1
  ELSE LET to == s.streams[h].to
           s1 == Log(s, Ev("write", to.k, h, s.streams[h].kind, TRUE, line, s.logfile))
       IN CASE to.k = "file" -> [s1 EXCEPT !.logFile = AppendLog(@, line)]
            [] to.k = "pipe" ->
                 \* tee copies the line to the terminal and to the log file
                 [Log(Log(s1, Ev("write", "tee-tty", NULL, "none", TRUE, line, s.logfile)),
                      Ev("write", "tee-file", NULL, "none", TRUE, line, s.logfile))
                    EXCEPT !.logFile = AppendLog(@, line)]
            [] OTHER -> s1

ices_log_string(s, pfx, str, e) ==
  LET line == FmtLine(pfx, str) IN
  IF redirect
  THEN fprintf(s, STDOUT, line, e)
  ELSE LET s1 == IF s.logfile # NULL THEN fprintf(s, s.logfile, line, e) ELSE s
       IN IF ~daemon THEN fprintf(s1, STDOUT, line, e) ELSE s1

ices_log(s, m, e) == ices_log_string(s, "", vsnprintf(m), e)

(* --------------------------- stdio streams ---------------------------- *)
Enter(s, fn) ==
  IF s.pc # "running" THEN s
  ELSE Log(s, Ev("call", fn, NULL, "none", FALSE, NoLine, s.logfile))

Ret(s, fn, r) ==
  IF s.pc # "running" THEN s
  ELSE [Log(s, Ev("ret", fn, r, "none", FALSE, NoLine, s.logfile)) EXCEPT !.ret = r]

(* a stream fopen/popen may hand out: not open, not held in the slot, and *)
(* no descriptor still on its pipe                                        *)
Free(s, h) ==
  /\ s.streams[h].st # "open"
  /\ h # s.logfile
  /\ s.streams[STDOUT].to # PipeTo(h)
  /\ s.stderrTo # PipeTo(h)

HasFree(s) == \E h \in Dyn : Free(s, h)

Alloc(s) == CHOOSE h \in Dyn : Free(s, h) /\ \A g \in Dyn : Free(s, g) => h <= g

fopen(s, path) ==
  LET h == Alloc(s) IN
  [Log(s, Ev("open", "fopen", h, "file", TRUE, NoLine, s.logfile))
     EXCEPT !.streams[h] = [st |-> "open", kind |-> "file", to |-> FileTo(path)],
            !.ret = h]

popen(s) ==
  LET h == Alloc(s) IN
  [Log(s, Ev("open", "popen", h, "pipe", TRUE, NoLine, s.logfile))
     EXCEPT !.streams[h] = [st |-> "open", kind |-> "pipe", to |-> PipeTo(h)],
            !.ret = h]

(* freopen(path, mode, stream): the stream is closed first; on failure it *)
(* stays closed and NULL is returned                                      *)
freopen(s, h, to, ok) ==
  IF s.pc # "running" THEN s
  ELSE IF ok
  THEN [Log(s, Ev("open", "freopen", h, s.streams[h].kind, TRUE, NoLine, s.logfile))
          EXCEPT !.streams[h].st = "open", !.streams[h].to = to, !.ret = h]
  ELSE [s EXCEPT !.streams[h].st = "closed", !.streams[h].to = NOFD, !.ret = NULL]

(* fclose(h); fn names the caller's primitive in the event *)
fcloseAs(s, h, fn, e) ==
  IF s.pc # "running" THEN s
  ELSE LET s1 == Log(s, Ev("close", fn, h, s.streams[h].kind, IsOpen(s, h), NoLine, s.logfile))
       IN IF IsOpen(s, h)
          THEN [s1 EXCEPT !.streams[h].st = "closed", !.streams[h].to = NOFD]
          ELSE IF e.ubClose = "crash" THEN [s1 EXCEPT !.pc = "crashed"] ELSE s1

fclose(s, h, e) == fcloseAs(s, h, "fclose", e)

(* pclose(h): close the stream, then wait for the child to exit *)
pclose(s, h, e) ==
  IF s.pc # "running" THEN s
  ELSE LET s1 == Log(s, Ev("close", "pclose", h, s.streams[h].kind, IsOpen(s, h), NoLine, s.logfile))
       IN IF IsOpen(s, h)
          THEN LET s2 == [s1 EXCEPT !.streams[h].st = "closed", !.streams[h].to = NOFD]
               IN IF s2.streams[STDOUT].to = PipeTo(h) \/ s2.stderrTo = PipeTo(h)
                  THEN [s2 EXCEPT !.pc = "hung"]
                  ELSE s2
          ELSE IF e.ubClose = "crash" THEN [s1 EXCEPT !.pc = "crashed"] ELSE s1

(* the generic close helper of util.c: closes a non-null stream *)
ices_util_fclose(s, h, e) ==
  IF h # NULL THEN fcloseAs(s, h, "ices_util_fclose", e) ELSE s

(* ---------------------------- SinkManager ----------------------------- *)
NameOk == baseLen # NoDir /\ baseLen <= MaxBaseLen

(* length of what snprintf leaves in filename[len] *)
PathLen(len) == Min(baseLen + SuffixLen, len - 1)

BaseInvalid == Lit("Base directory is invalid", 25)

OpenError(path) == Lit("Error while opening", 29 + path + Min(StrerrorLen, ERR_BUFF_LEN - 1))

ices_get_logfile_name(s, len) ==
  IF s.pc # "running" THEN s
  ELSE IF ~NameOk
  THEN Ret(ices_log_error(s, BaseInvalid), "ices_get_logfile_name", 0)
  ELSE Ret(s, "ices_get_logfile_name", 1)

Store(s, h) ==
  IF s.pc # "running" THEN s
  ELSE [Log(s, Ev("store", "logfile", h, IF h = NULL THEN "none" ELSE s.streams[h].kind,
                  IsOpen(s, s.logfile) /\ s.logfile # h, NoLine, s.logfile))
          EXCEPT !.logfile = h]

ices_log_open_logfile(s, e) ==
  LET s0 == Enter(s, "ices_log_open_logfile")
      s1 == ices_get_logfile_name(s0, LOG_FILENAME_LEN)
      path == PathLen(LOG_FILENAME_LEN)
  IN IF s1.pc # "running" THEN s1
     ELSE IF s1.ret # 1 THEN Ret(s1, "ices_log_open_logfile", 0)
     ELSE IF ~e.fopenOk
     THEN Ret(ices_log_error(s1, OpenError(path)), "ices_log_open_logfile", 0)
     ELSE LET s2 == fopen(s1, path)
          IN Ret(Store(s2, s2.ret), "ices_log_open_logfile", 1)

ices_log_close_logfile(s, e) ==
  LET s0 == Enter(s, "ices_log_close_logfile")
      s1 == IF s0.logfile # NULL THEN ices_util_fclose(s0, s0.logfile, e) ELSE s0
  IN Ret(s1, "ices_log_close_logfile", 1)

ices_log_reopen_logfile(s, e) ==
  ices_log_open_logfile(ices_log_close_logfile(s, e), e)

(* tee redirect: stdout and stderr onto a pipe read by "tee -a logfile" *)
ices_setup_output_redirects(s, e) ==
  LET s0 == Enter(s, "ices_setup_output_redirects") IN
  IF ~redirect THEN Ret(s0, "ices_setup_output_redirects", 1)
  ELSE
  LET s1 == ices_get_logfile_name(s0, LOG_FILENAME_LEN) IN
  IF s1.pc # "running" THEN s1
  ELSE IF s1.ret # 1 THEN Ret(s1, "ices_setup_output_redirects", 0)
  ELSE IF ~e.popenOk
  THEN Ret(ices_log(s1, Lit("can't create pipe", 17), e), "ices_setup_output_redirects", 0)
  ELSE
  LET s2 == popen(s1)
      pipe == s2.ret
      \* res1 = dup2(pno, fileno(stdout))
      s3 == IF e.dup2Out
            THEN [s2 EXCEPT !.streams[STDOUT].to = PipeTo(pipe)]
            ELSE ices_log(pclose(s2, pipe, e), Lit("can't redirect stdout to pipe", 29), e)
      \* res2 = dup2(pno, fileno(stderr)); pno is no descriptor once the pipe is closed
      res2 == IsOpen(s3, pipe) /\ e.dup2Err
      s4 == IF res2
            THEN [s3 EXCEPT !.stderrTo = PipeTo(pipe)]
            ELSE ices_log(freopen(pclose(s3, pipe, e), STDOUT, TTY, TRUE),
                          Lit("can't redirect stderr to pipe", 29), e)
      s5 == ices_log_close_logfile(s4, e)
  IN Ret(Store(s5, pipe), "ices_setup_output_redirects", 1)

(* ---------------------------- Daemonizer ------------------------------ *)
(* the close of the previous sink, lines 72-84 *)
DaemonizeClosePrevious(s, e) ==
  IF s.pc # "running" \/ s.logfile = NULL THEN s
  ELSE LET h == s.logfile
           \* fstat(fileno(h)): defined only while h is open
           res == IF IsOpen(s, h)
                  THEN (IF s.streams[h].to.k = "pipe" THEN "fifo" ELSE "reg")
                  ELSE e.ubFstat
       IN CASE res = "fifo" -> Store(pclose(s, h, e), NULL)
            [] res = "reg" -> Store(fclose(s, h, e), NULL)
            [] OTHER -> s

(* the redirects and the reopen, lines 70-103 *)
DaemonizeRedirect(s2, e) ==
  LET path == PathLen(LOG_FILENAME_LEN)
      s3 == freopen(s2, STDOUT, FileTo(path), e.freopenOk)
      logfp == s3.ret
      s4 == DaemonizeClosePrevious(s3, e)
  IN IF s4.pc # "running" THEN s4
     ELSE IF logfp = NULL
     THEN Ret(ices_log_error(s4, OpenError(path)), "ices_log_daemonize", 0)
     ELSE
     LET \* res = dup2(fileno(logfp), fileno(stderr))
         res == IsOpen(s4, logfp) /\ e.dup2Err
         s5 == IF res
               THEN [s4 EXCEPT !.stderrTo = s4.streams[logfp].to]
               ELSE ices_log(s4, Lit("can't redirect stderr to pipe", 29), e)
         s6 == Store(s5, logfp)
         s7 == freopen(s6, STDOUT, DEVNULL, TRUE)
         s8 == IF s7.pc # "running" THEN s7 ELSE [s7 EXCEPT !.stderrTo = DEVNULL]
         s9 == ices_log_reopen_logfile(s8, e)
     IN Ret(s9, "ices_log_daemonize", 1)

(* a daemonize that goes on when the log path could not be built *)
ices_log_daemonize_ignores_name(s, e) ==
  LET s0 == Enter(s, "ices_log_daemonize")
      s1 == [s0 EXCEPT !.stdinTo = DEVNULL]
      s2 == ices_get_logfile_name(s1, LOG_FILENAME_LEN)
  IN IF s2.pc # "running" THEN s2 ELSE DaemonizeRedirect(s2, e)

ices_log_daemonize(s, e) ==
  LET s0 == Enter(s, "ices_log_daemonize")
      s1 == [s0 EXCEPT !.stdinTo = DEVNULL]
      s2 == ices_get_logfile_name(s1, LOG_FILENAME_LEN)
  IN IF s2.pc # "running" THEN s2
     ELSE IF s2.ret # 1 THEN Ret(s2, "ices_log_daemonize", 0)
     ELSE DaemonizeRedirect(s2, e)

(* ----------------------- public entry points -------------------------- *)
ices_log_initialize(s, e) ==
  LET s1 == IF daemon THEN ices_log_daemonize(s, e)
            ELSE IF redirect THEN ices_setup_output_redirects(s, e)
            ELSE LET t == ices_log_open_logfile(s, e)
                 IN IF t.pc = "running" /\ t.ret = 0
                    THEN ices_log(t, ices_log_get_error(t), e)
                    ELSE t
  IN ices_log(s1, Lit("Logfile opened", 14), e)

ices_log_shutdown(s, e) ==
  LET t == ices_log_close_logfile(s, e)
  IN IF t.pc = "running" /\ t.ret = 0
     THEN ices_log(t, ices_log_get_error(t), e)
     ELSE t

(* verbose: the value of ices_config.verbose the call reads *)
(* a debug call that does not look at verbose *)
ices_log_debug_ungated(s, verbose, m, e) ==
  ices_log_string(s, "DEBUG: ", vsnprintf(m), e)

ices_log_debug(s, verbose, m, e) ==
  IF ~verbose THEN s
  ELSE ices_log_string(s, "DEBUG: ", vsnprintf(m), e)

ices_log_error_output(s, m, e) ==
  LET buff == vsnprintf(m)
  IN ices_log_string(ices_log_error(s, buff), "", buff, e)

(* ------------------------------ actions ------------------------------- *)
Init ==
  /\ redirect \in BOOLEAN
  /\ daemon \in BOOLEAN
  /\ baseLen \in BaseDirs
  /\ logfile = NULL
  /\ streams = [h \in Handles |->
                  IF h = STDOUT THEN [st |-> "open", kind |-> "std", to |-> TTY]
                  ELSE Unused]
  /\ stderrTo = TTY
  /\ stdinTo = TTY
  /\ lasterror = EmptyStr
  /\ logFile = <<>>
  /\ pc = "running"
  /\ calls = 0
  /\ last = [op |-> "start", arg |-> EmptyStr, ret |-> 1, ev |-> <<>>]

(* fclose and pclose free the stream: one that is closed and that the    *)
(* slot does not point to exists no more                                 *)
Forget(str, slot) ==
  [h \in Handles |->
     IF h \in Dyn /\ str[h].st = "closed" /\ h # slot THEN Unused ELSE str[h]]

(* the call op(arg) runs to completion and leaves the state nxt.         *)
(* ices_log_initialize is the first call that opens or closes the sink.  *)
Do(op, arg, nxt) ==
  /\ logfile' = nxt.logfile
  /\ streams' = Forget(nxt.streams, nxt.logfile)
  /\ stderrTo' = nxt.stderrTo
  /\ stdinTo' = nxt.stdinTo
  /\ lasterror' = nxt.lasterror
  /\ logFile' = nxt.logFile
  /\ pc' = nxt.pc
  /\ last' = [op |-> op, arg |-> arg, ret |-> nxt.ret, ev |-> nxt.ev]
  /\ UNCHANGED cfg

Initialize ==
  /\ pc = "running"
  /\ calls < MaxCalls
  /\ calls' = calls + 1
  /\ HasFree(Cur)
  /\ \E e \in EnvInitialize : Do("initialize", EmptyStr, ices_log_initialize(Cur, e))

(* the application daemonizes only in daemon mode, as ices_log_initialize *)
(* does, and after it initialized the module                              *)
Daemonize ==
  /\ pc = "running"
  /\ daemon
  /\ 0 < calls /\ calls < MaxCalls
  /\ calls' = calls + 1
  /\ HasFree(Cur)
  /\ \E e \in EnvDaemonize : Do("daemonize", EmptyStr, ices_log_daemonize(Cur, e))

Reopen ==
  /\ pc = "running"
  /\ 0 < calls /\ calls < MaxCalls
  /\ calls' = calls + 1
  /\ HasFree(Cur)
  /\ \E e \in EnvReopen : Do("reopen", EmptyStr, ices_log_reopen_logfile(Cur, e))

Shutdown ==
  /\ pc = "running"
  /\ 0 < calls /\ calls < MaxCalls
  /\ calls' = calls + 1
  /\ \E e \in EnvClose : Do("shutdown", EmptyStr, ices_log_shutdown(Cur, e))

Info ==
  /\ pc = "running"
  /\ UNCHANGED calls
  /\ \E m \in Msgs, e \in EnvWrite : Do("info", m, ices_log(Cur, m, e))

Debug ==
  /\ pc = "running"
  /\ UNCHANGED calls
  /\ \E verbose \in BOOLEAN, m \in Msgs, e \in EnvWrite :
        Do(IF verbose THEN "debug" ELSE "debug-quiet", m, ices_log_debug(Cur, verbose, m, e))

Record ==
  /\ pc = "running"
  /\ UNCHANGED calls
  /\ \E m \in Msgs : Do("record", m, ices_log_error(Cur, m))

ErrorOutput ==
  /\ pc = "running"
  /\ UNCHANGED calls
  /\ \E m \in Msgs, e \in EnvWrite : Do("errorOutput", m, ices_log_error_output(Cur, m, e))

Next ==
  \/ Initialize
  \/ Daemonize
  \/ Reopen
  \/ Shutdown
  \/ Info
  \/ Debug
  \/ Record
  \/ ErrorOutput

Spec == Init /\ [][Next]_vars

(* ------------------------- properties: sink --------------------------- *)
Evs == DOMAIN last.ev

(* kind of the sink as the specification names it *)
SinkKind ==
  IF logfile = NULL THEN "Closed"
  ELSE IF streams[logfile].st # "open" THEN "Dangling"
  ELSE IF streams[logfile].kind = "pipe" THEN "PipeTee"
  ELSE "RegularFile"

OpenSinks ==
  {h \in Dyn : streams[h].st = "open"}
    \cup (IF logfile = STDOUT /\ streams[STDOUT].st = "open" THEN {STDOUT} ELSE {})

(* C1: on every close path an open pipe-backed sink is torn down with     *)
(* pclose and an open regular file with the file-close helper or fclose;  *)
(* the file close is never applied to a pipe, nor pclose to a file.       *)
C1_ClosePrimitiveMatchesKind ==
  \A i \in Evs :
    (last.ev[i].t = "close" /\ last.ev[i].wasOpen)
      => ((last.ev[i].kind = "pipe") <=> (last.ev[i].fn = "pclose"))

(* C2: whenever ices_log_close_logfile returns, the slot is NULL, so the  *)
(* sink is Closed and no dangling handle stays in ices_config.logfile.    *)
C2_SlotNullAfterClose ==
  \A i \in Evs :
    (last.ev[i].t = "ret" /\ last.ev[i].fn = "ices_log_close_logfile")
      => last.ev[i].slot = NULL

(* C3: a close of a sink that was closed before applies no close          *)
(* primitive to any handle: every stream handed to the close helper is    *)
(* open at that moment.                                                   *)
C3_CloseIsIdempotent ==
  \A i \in Evs :
    (last.ev[i].t = "close" /\ last.ev[i].fn = "ices_util_fclose")
      => last.ev[i].wasOpen

(* C4: at most one sink handle is open, and no store into the slot        *)
(* overwrites a handle that is still open.                                *)
C4_OneSinkNoLeak ==
  /\ Cardinality(OpenSinks) <= 1
  /\ \A i \in Evs : last.ev[i].t = "store" => ~last.ev[i].wasOpen

(* the call event that a return event answers *)
CallOf(ev, i) ==
  CHOOSE j \in 1..i :
    /\ ev[j].t = "call" /\ ev[j].fn = ev[i].fn
    /\ \A k \in (j + 1)..i : ~(ev[k].t = "call" /\ ev[k].fn = ev[i].fn)

OpenFns == {"ices_log_open_logfile", "ices_setup_output_redirects"}

(* C5: with base_directory absent, empty or longer than 1016 characters,  *)
(* ices_log_open_logfile and ices_setup_output_redirects return failure,  *)
(* the last error reads "Base directory is invalid", nothing is opened    *)
(* and the slot is what it was when the function was entered.             *)
C5_InvalidBaseFailsCleanly ==
  (baseLen = NoDir \/ baseLen = 0 \/ baseLen > MaxBaseLen) =>
    \A i \in Evs :
      (last.ev[i].t = "ret" /\ last.ev[i].fn \in OpenFns) =>
        /\ last.ev[i].h = 0
        /\ lasterror = BaseInvalid
        /\ \A k \in Evs : ~(last.ev[k].t = "open" /\ last.ev[k].fn \in {"fopen", "popen"})
        /\ last.ev[i].slot = last.ev[CallOf(last.ev, i)].slot

(* ------------------------ properties: Writer -------------------------- *)
(* what a caller's message is once formatted into a BUFSIZE buffer *)
Formatted(m) == [txt |-> m.txt, len |-> IF m.len < BUFSIZE THEN m.len ELSE BUFSIZE - 1]

ExpectedLine(pfx, m) == [pfx |-> pfx, txt |-> m.txt, len |-> Formatted(m).len]

SinkActive == logfile # NULL /\ streams[logfile].st = "open"

(* the call put this line on the terminal *)
ConsoleWritten(ev, line) ==
  \E i \in DOMAIN ev :
    ev[i].t = "write" /\ ev[i].fn \in {"tty", "tee-tty"} /\ ev[i].line = line

(* the call put this line in the log file *)
FileWritten(ev, line) ==
  \E i \in DOMAIN ev :
    ev[i].t = "write" /\ ev[i].fn \in {"file", "tee-file"} /\ ev[i].line = line

(* ices_log_initialize has run *)
Initialized == calls > 0

(* C6: a line written with info() while a regular-file sink is active is  *)
(* not lost: when the call returns it is the last line of the log file.   *)
C6_InfoLineIsLastInFile ==
  (last.op = "info" /\ pc = "running" /\ SinkKind = "RegularFile")
    => logFile = <<ExpectedLine("", last.arg)>>

(* C7: info() writes its line to the console iff the process is not       *)
(* daemonized, and to the log file iff a sink is active; after            *)
(* daemonization there is no console output, only file output.            *)
C7_WriterDispatch ==
  (last.op = "info" /\ pc = "running" /\ Initialized) =>
    /\ ConsoleWritten(last.ev, ExpectedLine("", last.arg)) <=> ~daemon
    /\ FileWritten(last.ev, ExpectedLine("", last.arg)) <=> SinkActive

(* the line of a debug call *)
DebugLine(m) == ExpectedLine("DEBUG: ", m)

(* the call wrote one line, and wrote it where info() writes its line *)
DispatchedAsInfo(e) ==
  LET i == ices_log(Cur, last'.arg, e) IN
    /\ DOMAIN last'.ev = DOMAIN i.ev
    /\ \A k \in DOMAIN i.ev :
          /\ last'.ev[k] = [i.ev[k] EXCEPT !.line = DebugLine(last'.arg)]
          /\ i.ev[k].t = "write"
          /\ \A j \in DOMAIN i.ev :
                (i.ev[j].fn = i.ev[k].fn /\ i.ev[j].h = i.ev[k].h) => j = k
    /\ pc' = i.pc

(* C8: with verbose false ices_log_debug writes nothing and changes       *)
(* neither the sink nor the last error; with verbose true it writes one   *)
(* line, prefixed "DEBUG: ", to the destinations ices_log writes to.      *)
C8_DebugGatedOnVerbose ==
  [][/\ last'.op = "debug-quiet" =>
          /\ last'.ev = <<>>
          /\ UNCHANGED <<logfile, streams, stderrTo, stdinTo, lasterror, logFile, pc>>
     /\ last'.op = "debug" =>
          /\ \E e \in EnvWrite : DispatchedAsInfo(e)
          /\ UNCHANGED <<logfile, streams, stderrTo, stdinTo, lasterror>>
          /\ logFile' = IF FileWritten(last'.ev, DebugLine(last'.arg))
                        THEN <<DebugLine(last'.arg)>> ELSE logFile]_vars

(* a verbose debug call put its prefixed line on the console and in the file *)
C8_Witness ==
  /\ last.op = "debug" /\ pc = "running" /\ SinkActive
  /\ ConsoleWritten(last.ev, DebugLine(last.arg))
  /\ FileWritten(last.ev, DebugLine(last.arg))

(* C9: after errorOutput(m) with an active sink, the last error is the    *)
(* formatted m and the same line has been written to the sink's output.   *)
C9_ErrorOutputRecordsAndWrites ==
  (last.op = "errorOutput" /\ pc = "running" /\ SinkActive) =>
    /\ lasterror = Formatted(last.arg)
    /\ FileWritten(last.ev, ExpectedLine("", last.arg))

(* ---------------------- properties: ErrorState ------------------------ *)
(* the recordings of an error a call made, in order *)
Recordings(ev) == {i \in DOMAIN ev : ev[i].t = "record"}

LastRecording(ev) == CHOOSE i \in Recordings(ev) : \A j \in Recordings(ev) : j <= i

LifecycleOps == {"initialize", "daemonize", "reopen", "shutdown"}

(* C10: the last error is empty at the start; a call that records nothing *)
(* leaves it as it is, and a call that records leaves exactly the message *)
(* it recorded last, cut to the buffer. ices_log and ices_log_debug       *)
(* record nothing, a lifecycle call records only on a path that fails.    *)
C10_LastErrorLastWriteWins ==
  /\ lasterror = EmptyStr
  /\ [][LET ev == last'.ev IN
          /\ Recordings(ev) = {} => lasterror' = lasterror
          /\ Recordings(ev) # {} =>
                lasterror' = Formatted(ev[LastRecording(ev)].line)
          /\ last'.op \in {"info", "debug", "debug-quiet"} => Recordings(ev) = {}
          /\ last'.op \in {"record", "errorOutput"} =>
                lasterror' = Formatted(last'.arg)
          /\ last'.op \in LifecycleOps =>
                \A i \in Recordings(ev) :
                  \E j \in DOMAIN ev : j > i /\ ev[j].t = "ret" /\ ev[j].h = 0]_vars

(* ices_log_error overwrote the message a failed open had left *)
C10_Witness ==
  /\ baseLen = NoDir /\ ~redirect /\ Initialized
  /\ last.op = "record" /\ lasterror = Formatted(last.arg)
  /\ lasterror # BaseInvalid

(* ------------------- properties: pipe-tee set-up ---------------------- *)
StdoutFailedLine == FmtLine("", Lit("can't redirect stdout to pipe", 29))
StderrFailedLine == FmtLine("", Lit("can't redirect stderr to pipe", 29))

(* the call logged this line, wherever the write went *)
Logged(ev, line) == \E i \in DOMAIN ev : ev[i].t = "write" /\ ev[i].line = line

(* C11: when ices_setup_output_redirects fails to redirect stdout to the  *)
(* pipe, it closes the pipe, records an error, returns 0, does not try    *)
(* the stderr redirect and does not store the pipe in the slot.           *)
C11_StdoutRedirectFailureAborts ==
  (redirect /\ pc = "running" /\ last.op = "initialize"
     /\ Logged(last.ev, StdoutFailedLine)) =>
    /\ \E i \in Evs : last.ev[i].t = "close" /\ last.ev[i].fn = "pclose"
                        /\ last.ev[i].wasOpen
    /\ Recordings(last.ev) # {}
    /\ \A i \in Evs :
         (last.ev[i].t = "ret" /\ last.ev[i].fn = "ices_setup_output_redirects")
           => last.ev[i].h = 0
    /\ ~Logged(last.ev, StderrFailedLine)
    /\ \A i \in Evs : ~(last.ev[i].t = "store" /\ last.ev[i].kind = "pipe")

(* ---------------------- properties: rotation -------------------------- *)
(* C12: a reopen whose open step fails returns 0 with the error recorded  *)
(* and leaves the sink Closed; a reopen that succeeds leaves one open     *)
(* regular-file sink; no reopen applies a close primitive to a handle     *)
(* that is closed already.                                                *)
C12_FailedReopenIsRecoverable ==
  (last.op = "reopen" /\ pc = "running") =>
    /\ last.ret = 0 => (SinkKind = "Closed" /\ Recordings(last.ev) # {})
    /\ last.ret = 1 => (SinkKind = "RegularFile" /\ Cardinality(OpenSinks) = 1)
    /\ \A i \in Evs : last.ev[i].t = "close" => last.ev[i].wasOpen

WriterOps == {"info", "debug", "errorOutput"}

(* C13: once the module is initialized, every write of an ices_log,       *)
(* ices_log_debug or ices_log_error_output call goes to a stream that is  *)
(* open at that moment, whatever reopen and shutdown calls came before.   *)
C13_WritesTargetOpenHandles ==
  (last.op \in WriterOps /\ Initialized) =>
    \A i \in Evs : last.ev[i].t = "write" => last.ev[i].wasOpen

(* --------------------- properties: Daemonizer ------------------------- *)
(* the path ices_get_logfile_name is to produce: base_directory/ices.log *)
LogPath == baseLen + SuffixLen

(* function fn returned r in this call *)
Returned(ev, fn, r) ==
  \E i \in DOMAIN ev : ev[i].t = "ret" /\ ev[i].fn = fn /\ ev[i].h = r

(* a base_directory the specification calls valid *)
ValidBase == 1 <= baseLen /\ baseLen <= MaxBaseLen

(* ices_log_daemonize ran in the last call, with a valid base_directory,  *)
(* and every open in it succeeded                                         *)
DaemonizeCompleted ==
  /\ last.op \in {"initialize", "daemonize"} /\ daemon /\ pc = "running"
  /\ ValidBase
  /\ Returned(last.ev, "ices_log_daemonize", 1)
  /\ Returned(last.ev, "ices_log_open_logfile", 1)

(* C14: after ices_log_daemonize completed with every open succeeding,    *)
(* the sink is an open regular file on base_directory/ices.log and        *)
(* stderr is directed to that file; when the stderr duplication failed    *)
(* the failure is logged and the sink is installed all the same.          *)
C14_DaemonizeInstallsSinkAndStderr ==
  DaemonizeCompleted =>
    /\ SinkKind = "RegularFile"
    /\ streams[logfile].to = FileTo(LogPath)
    /\ Logged(last.ev, StderrFailedLine) \/ stderrTo = FileTo(LogPath)

(* the log path cannot be built: base_directory is absent or too long *)
NoLogPath == baseLen = NoDir \/ baseLen > MaxBaseLen

OntoSinkFile(t) == t = streams[logfile].to \/ t.k = "pipe"

(* C16: when a call has returned, a PipeTee sink has stdout and stderr    *)
(* both on the write end of its pipe; a RegularFile sink is a stream      *)
(* other than stdout, and neither stdout nor stderr is redirected onto    *)
(* the file it writes.                                                    *)
C16_SinkDescriptorPairing ==
  pc = "running" =>
    /\ SinkKind = "PipeTee" =>
         /\ streams[STDOUT].to = PipeTo(logfile)
         /\ stderrTo = PipeTo(logfile)
    /\ SinkKind = "RegularFile" =>
         /\ logfile # STDOUT
         /\ ~OntoSinkFile(streams[STDOUT].to)
         /\ ~OntoSinkFile(stderrTo)

(* ------------------------ properties: log path ------------------------ *)
(* C17: for a base_directory of 1 to 1016 characters the path built in    *)
(* the 1024-byte buffer is base_directory followed by "/ices.log", not    *)
(* cut short: every file the module opens is base_directory/ices.log.     *)
C17_PathIsNotTruncated ==
  ValidBase =>
    \A h \in Handles :
      (streams[h].st = "open" /\ streams[h].to.k = "file")
        => streams[h].to = FileTo(LogPath)

(* ------------------ properties: pipe-tee set-up, success -------------- *)
(* C18: when ices_setup_output_redirects returns 1 in the tee-redirect    *)
(* build, the pipe it stored in the slot is open: no pipe that was        *)
(* pclosed before is stored or reported as opened.                        *)
C18_StoredPipeIsNotTornDown ==
  (redirect /\ last.op = "initialize" /\ pc = "running"
     /\ Returned(last.ev, "ices_setup_output_redirects", 1)) =>
    /\ SinkKind = "PipeTee"
    /\ \A i \in Evs :
         (last.ev[i].t = "store" /\ last.ev[i].kind = "pipe") =>
           \A j \in 1..i :
             ~(last.ev[j].t = "close" /\ last.ev[j].h = last.ev[i].h)

====
